---- MODULE Spec2Model ----
(***************************************************************************)
(* Paged memory simulator (trab2_SO.py): the MemoryManager, its processes, *)
(* the free-frame list and the physical memory, with the three operations  *)
(* the command loop offers: create_process, view_memory, view_page_table.  *)
(*                                                                         *)
(* Representation.  A bytearray is a function over 0 .. len-1.  A Python    *)
(* list is a sequence.  The dict `processes` keeps insertion order, so it  *)
(* is a sequence of Process records looked up by pid.  A page table is a   *)
(* function from page number to frame number.                              *)
(***************************************************************************)
EXTENDS Integers, Sequences, FiniteSets

\* ------------------------------------------------------------- bounds
\* Largest value typed at a configuration prompt.
MaxConfig == 4
\* Process ids typed at the prompt range over -1 .. MaxPid.
MaxPid == 0
\* Sizes typed at the prompt range over -1 .. MaxSize.
MaxSize == 5
\* The random generator starts in one of the states 1 .. MaxSeed.
MaxSeed == 2

\* ---------------------------------------------------- program constants
\* random.getrandbits(8): a byte is one of ByteMod values.
ByteMod == 256
\* view_memory reads physical_memory[frame_start : frame_start + 8].
SnippetLen == 8

VARIABLES
    physical_size,      \* MemoryManager.physical_size
    page_size,          \* MemoryManager.page_size
    max_process_size,   \* MemoryManager.max_process_size
    total_frames,       \* MemoryManager.total_frames
    physical_memory,    \* MemoryManager.physical_memory (bytearray)
    free_frames,        \* MemoryManager.free_frames (list, popped at the end)
    processes,          \* MemoryManager.processes (dict pid -> Process)
    rng,                \* state of the module-level generator of `random`
    op,                 \* the last call made by the command loop
    ret,                \* what the last call returned
    report              \* what the last call printed

vars == <<physical_size, page_size, max_process_size, total_frames,
          physical_memory, free_frames, processes, rng, op, ret, report>>

manager == <<physical_size, page_size, max_process_size, total_frames,
             physical_memory, free_frames, processes>>

Pids == (0 - 1) .. MaxPid
Sizes == (0 - 1) .. MaxSize
Seeds == 1 .. MaxSeed

Min(a, b) == IF a <= b THEN a ELSE b
Max(a, b) == IF a >= b THEN a ELSE b

\* ---------------------------------------------------------- bytearrays
BLen(b) == Cardinality(DOMAIN b)

\* bytearray(n): n zero bytes.
Zeros(n) == [i \in 0 .. (n - 1) |-> 0]

\* b[lo:hi] for 0 <= lo: Python clips both ends to the length.
Slice(b, lo, hi) ==
    LET n == BLen(b)
        a == Min(lo, n)
        e == Max(a, Min(hi, n))
    IN  [i \in 0 .. (e - a - 1) |-> b[a + i]]

\* b[lo:hi] = data: the clipped slice is replaced by data, whatever its length.
SliceAssign(b, lo, hi, data) ==
    LET n == BLen(b)
        a == Min(lo, n)
        e == Max(a, Min(hi, n))
        m == BLen(data)
    IN  [i \in 0 .. (a + m + (n - e) - 1) |->
            IF i < a THEN b[i]
            ELSE IF i < a + m THEN data[i - a]
            ELSE b[i - m + (e - a)]]

\* bytes.hex(" "): two hexadecimal digits per byte, in order.
Hex(b) == [i \in 1 .. BLen(b) |-> <<b[i - 1] \div 16, b[i - 1] % 16>>]

\* ------------------------------------------------------ random generator
\* The generator is a deterministic function of its hidden state; a small
\* full-period congruential generator stands for it.
RngStep(r) == (5 * r + 3) % ByteMod

RECURSIVE RngAfter(_, _)
RngAfter(r, n) == IF n <= 0 THEN r ELSE RngAfter(RngStep(r), n - 1)

\* random.getrandbits(8) in generator state r.
getrandbits8(r) == r % ByteMod

\* ------------------------------------------------------------- Process
\* NoMemoryError, or the number of bytes drawn before bytearray(...) raised
\* MemoryError: the error is taken at the first growth of the buffer, after
\* one draw.
NoMemoryError == 0 - 1
MemErrs(size) == {NoMemoryError, Min(1, size)}

\* Process(pid, size) built in generator state r.  When building the random
\* buffer raises MemoryError the logical memory is bytearray(size).
Process(pid, size, r, memerr) ==
    [pid |-> pid,
     size |-> size,
     page_table |-> [p \in {} |-> 0],
     logical_memory |->
        IF memerr # NoMemoryError THEN Zeros(size)
        ELSE [i \in 0 .. (size - 1) |-> getrandbits8(RngAfter(r, i))]]

\* The generator state after Process(pid, size).
RngAfterProcess(size, r, memerr) ==
    IF memerr # NoMemoryError THEN RngAfter(r, memerr) ELSE RngAfter(r, size)

\* ------------------------------------------------------------ dict, list
\* pid in self.processes
HasPid(procs, pid) == \E i \in 1 .. Len(procs) : procs[i].pid = pid

\* None, the value of a lookup that finds nothing.
None == [pid |-> "None"]

\* A lookup that takes the pid 0 for no pid (a test on the pid's truth).
DictGetTruthyPid(procs, pid) ==
    IF pid # 0 /\ HasPid(procs, pid)
    THEN procs[CHOOSE i \in 1 .. Len(procs) : procs[i].pid = pid]
    ELSE None

\* self.processes.get(pid): the Process, or None
DictGet(procs, pid) ==
    IF HasPid(procs, pid)
    THEN procs[CHOOSE i \in 1 .. Len(procs) : procs[i].pid = pid]
    ELSE None

\* self.processes[pid] = new_process
DictPut(procs, pid, new_process) ==
    IF HasPid(procs, pid)
    THEN [i \in 1 .. Len(procs) |->
            IF procs[i].pid = pid THEN new_process ELSE procs[i]]
    ELSE Append(procs, new_process)

\* The assignment with key and value exchanged:
\* page_table[frame_number] = page_number.
TableSetSwapped(page_table, page_number, frame_number) ==
    [p \in (DOMAIN page_table) \cup {frame_number} |->
        IF p = frame_number THEN page_number ELSE page_table[p]]

\* page_table[page_number] = frame_number
TableSet(page_table, page_number, frame_number) ==
    [p \in (DOMAIN page_table) \cup {page_number} |->
        IF p = page_number THEN frame_number ELSE page_table[p]]

\* A pop that reads the last element and leaves it in the list (l[-1]).
ListPopKeep(l) == [value |-> l[Len(l)], rest |-> l]

\* list.pop() on a non-empty list: the last element, and the list without it.
ListPop(l) == [value |-> l[Len(l)], rest |-> SubSeq(l, 1, Len(l) - 1)]

\* ------------------------------------------------------- configuration
RECURSIVE BitAnd(_, _)
BitAnd(a, b) ==
    IF a = 0 \/ b = 0 THEN 0
    ELSE (a % 2) * (b % 2) + 2 * BitAnd(a \div 2, b \div 2)

is_power_of_two(n) == IF n <= 0 THEN FALSE ELSE BitAnd(n, n - 1) = 0

\* get_validated_input: a positive power of two.
get_validated_input == {n \in 1 .. MaxConfig : is_power_of_two(n)}

\* The list filled in ascending order: list(range(total_frames)).
InitialFreeFramesAscending(n) == [i \in 1 .. n |-> i - 1]

\* list(range(total_frames - 1, -1, -1))
InitialFreeFrames(n) == [i \in 1 .. n |-> n - i]

NoOp == [name |-> "none", pid |-> 0, size |-> 0]
NoRet == [status |-> "None", pid |-> 0, size |-> 0, num_pages |-> 0,
          frames |-> <<>>]
NoReport == [kind |-> "none"]

Init ==
    /\ physical_size \in get_validated_input
    /\ page_size \in get_validated_input
    /\ page_size <= physical_size
    /\ max_process_size \in get_validated_input
    /\ total_frames = physical_size \div page_size
    /\ physical_memory = Zeros(physical_size)
    /\ free_frames = InitialFreeFrames(total_frames)
    /\ processes = <<>>
    /\ rng \in Seeds
    /\ op = NoOp
    /\ ret = NoRet
    /\ report = NoReport

\* ------------------------------------------------------- MemoryManager
\* The manager object, as the record of its attributes.
Self ==
    [physical_size |-> physical_size,
     page_size |-> page_size,
     max_process_size |-> max_process_size,
     total_frames |-> total_frames,
     physical_memory |-> physical_memory,
     free_frames |-> free_frames,
     processes |-> processes]

\* The page count rounded down: size // page_size.
CeilFloor(size, ps) == size \div ps

\* math.ceil(size / page_size), for size > 0 and page_size > 0.
Ceil(size, ps) == IF size % ps = 0 THEN size \div ps ELSE size \div ps + 1

\* The checks with the size checked before the pid.
FirstFailureSizeFirst(self, pid, size) ==
    IF size <= 0 THEN "InvalidSize"
    ELSE IF size > self.max_process_size THEN "SizeExceedsLimit"
    ELSE IF HasPid(self.processes, pid) THEN "DuplicatePid"
    ELSE IF Ceil(size, self.page_size) > Len(self.free_frames)
         THEN "InsufficientMemory"
    ELSE "ok"

\* The checks without the test for a registered pid.
FirstFailureNoDuplicate(self, pid, size) ==
    IF size <= 0 THEN "InvalidSize"
    ELSE IF size > self.max_process_size THEN "SizeExceedsLimit"
    ELSE IF Ceil(size, self.page_size) > Len(self.free_frames)
         THEN "InsufficientMemory"
    ELSE "ok"

\* The checks with the size tested by < 0, so that size 0 goes through.
FirstFailureZeroSize(self, pid, size) ==
    IF HasPid(self.processes, pid) THEN "DuplicatePid"
    ELSE IF size < 0 THEN "InvalidSize"
    ELSE IF size > self.max_process_size THEN "SizeExceedsLimit"
    ELSE IF Ceil(size, self.page_size) > Len(self.free_frames)
         THEN "InsufficientMemory"
    ELSE "ok"

\* The checks of create_process, in the order of the code: the failure
\* returned, or "ok" when the allocation goes ahead.
FirstFailure(self, pid, size) ==
    IF HasPid(self.processes, pid) THEN "DuplicatePid"
    ELSE IF size <= 0 THEN "InvalidSize"
    ELSE IF size > self.max_process_size THEN "SizeExceedsLimit"
    ELSE IF Ceil(size, self.page_size) > Len(self.free_frames)
         THEN "InsufficientMemory"
    ELSE "ok"

\* The copy with the frame number taken for the byte offset.
WritePageUnscaled(physical_memory_, frame_number, page_data, ps) ==
    LET physical_start == frame_number
        zeroed == SliceAssign(physical_memory_, physical_start,
                              physical_start + ps, Zeros(ps))
    IN  SliceAssign(zeroed, physical_start,
                    physical_start + BLen(page_data), page_data)

\* The copy placed one frame too far: physical_start taken from
\* frame_number + 1.
WritePageNextFrame(physical_memory_, frame_number, page_data, ps) ==
    LET physical_start == (frame_number + 1) * ps
        zeroed == SliceAssign(physical_memory_, physical_start,
                              physical_start + ps, Zeros(ps))
    IN  SliceAssign(zeroed, physical_start,
                    physical_start + BLen(page_data), page_data)

\* The copy of one page into its frame: the frame is zero-filled, then the
\* page's bytes overwrite its prefix.
WritePage(physical_memory_, frame_number, page_data, ps) ==
    LET physical_start == frame_number * ps
        zeroed == SliceAssign(physical_memory_, physical_start,
                              physical_start + ps, Zeros(ps))
    IN  SliceAssign(zeroed, physical_start,
                    physical_start + BLen(page_data), page_data)

\* The allocation loop of create_process, from page_number on.  st holds
\* what the loop updates; raised records list.pop() on an empty list
\* (IndexError), which ends the call.
RECURSIVE AllocLoop(_, _, _, _, _)
AllocLoop(page_number, num_pages_needed, st, logical_memory, ps) ==
    IF page_number >= num_pages_needed \/ st.raised THEN st
    ELSE IF Len(st.free_frames) = 0 THEN [st EXCEPT !.raised = TRUE]
    ELSE
        LET popped == ListPop(st.free_frames)
            frame_number == popped.value
            logical_start == page_number * ps
            logical_end == Min(logical_start + ps, BLen(logical_memory))
            page_data == Slice(logical_memory, logical_start, logical_end)
        IN  AllocLoop(page_number + 1, num_pages_needed,
                [free_frames |-> popped.rest,
                 allocated_frames |-> Append(st.allocated_frames, frame_number),
                 page_table |-> TableSet(st.page_table, page_number, frame_number),
                 physical_memory |->
                    WritePage(st.physical_memory, frame_number, page_data, ps),
                 raised |-> FALSE],
                logical_memory, ps)

\* create_process with the free-frame check made while drawing: the frames
\* are drawn until the list runs out, and only then is the failure reported.
create_process_call_late_check(self, r, pid, size, memerr) ==
    LET failure == FirstFailure(self, pid, size) IN
    IF failure \notin {"ok", "InsufficientMemory"}
    THEN [self |-> self, rng |-> r, report |-> NoReport,
          ret |-> [status |-> failure, pid |-> pid, size |-> size,
                   num_pages |-> 0, frames |-> <<>>]]
    ELSE
        LET num_pages_needed == Ceil(size, self.page_size)
            new_process == Process(pid, size, r, memerr)
            st == AllocLoop(0, num_pages_needed,
                    [free_frames |-> self.free_frames,
                     allocated_frames |-> <<>>,
                     page_table |-> new_process.page_table,
                     physical_memory |-> self.physical_memory,
                     raised |-> FALSE],
                    new_process.logical_memory, self.page_size)
            after == [self EXCEPT !.free_frames = st.free_frames,
                                  !.physical_memory = st.physical_memory]
        IN  IF st.raised
            THEN [self |-> after, rng |-> RngAfterProcess(size, r, memerr),
                  report |-> NoReport,
                  ret |-> [status |-> "InsufficientMemory", pid |-> pid,
                           size |-> size, num_pages |-> 0, frames |-> <<>>]]
            ELSE [self |-> [after EXCEPT !.processes =
                                DictPut(self.processes, pid,
                                    [new_process EXCEPT !.page_table = st.page_table])],
                  rng |-> RngAfterProcess(size, r, memerr),
                  report |-> NoReport,
                  ret |-> [status |-> "Success", pid |-> pid, size |-> size,
                           num_pages |-> num_pages_needed,
                           frames |-> st.allocated_frames]]

\* create_process that, finding too few free frames, refills the free list
\* as at construction before it reports the failure.
create_process_call_refill(self, r, pid, size, memerr) ==
    LET failure == FirstFailure(self, pid, size) IN
    IF failure = "InsufficientMemory"
    THEN [self |-> [self EXCEPT !.free_frames =
                        InitialFreeFrames(self.total_frames)],
          rng |-> r, report |-> NoReport,
          ret |-> [status |-> failure, pid |-> pid, size |-> size,
                   num_pages |-> 0, frames |-> <<>>]]
    ELSE IF failure # "ok"
    THEN [self |-> self, rng |-> r, report |-> NoReport,
          ret |-> [status |-> failure, pid |-> pid, size |-> size,
                   num_pages |-> 0, frames |-> <<>>]]
    ELSE
        LET num_pages_needed == Ceil(size, self.page_size)
            new_process == Process(pid, size, r, memerr)
            st == AllocLoop(0, num_pages_needed,
                    [free_frames |-> self.free_frames,
                     allocated_frames |-> <<>>,
                     page_table |-> new_process.page_table,
                     physical_memory |-> self.physical_memory,
                     raised |-> FALSE],
                    new_process.logical_memory, self.page_size)
        IN  [self |-> [self EXCEPT
                        !.free_frames = st.free_frames,
                        !.physical_memory = st.physical_memory,
                        !.processes =
                            DictPut(self.processes, pid,
                                [new_process EXCEPT !.page_table = st.page_table])],
             rng |-> RngAfterProcess(size, r, memerr),
             report |-> [kind |-> "alocando", pid |-> pid,
                         num_pages |-> num_pages_needed],
             ret |-> [status |-> "Success", pid |-> pid, size |-> size,
                      num_pages |-> num_pages_needed,
                      frames |-> st.allocated_frames]]

\* create_process(pid, size) on manager self in generator state r: the manager
\* after the call, the generator state, the value returned and what was printed.
create_process_call(self, r, pid, size, memerr) ==
    LET failure == FirstFailure(self, pid, size) IN
    IF failure # "ok"
    THEN [self |-> self, rng |-> r, report |-> NoReport,
          ret |-> [status |-> failure, pid |-> pid, size |-> size,
                   num_pages |-> 0, frames |-> <<>>]]
    ELSE
        LET num_pages_needed == Ceil(size, self.page_size)
            new_process == Process(pid, size, r, memerr)
            st == AllocLoop(0, num_pages_needed,
                    [free_frames |-> self.free_frames,
                     allocated_frames |-> <<>>,
                     page_table |-> new_process.page_table,
                     physical_memory |-> self.physical_memory,
                     raised |-> FALSE],
                    new_process.logical_memory, self.page_size)
            after == [self EXCEPT !.free_frames = st.free_frames,
                                  !.physical_memory = st.physical_memory]
            alocando == [kind |-> "alocando", pid |-> pid,
                         num_pages |-> num_pages_needed]
        IN  IF st.raised
            THEN [self |-> after, rng |-> RngAfterProcess(size, r, memerr),
                  report |-> alocando,
                  ret |-> [status |-> "IndexError", pid |-> pid, size |-> size,
                           num_pages |-> 0, frames |-> <<>>]]
            ELSE [self |-> [after EXCEPT !.processes =
                                DictPut(self.processes, pid,
                                    [new_process EXCEPT !.page_table = st.page_table])],
                  rng |-> RngAfterProcess(size, r, memerr),
                  report |-> alocando,
                  ret |-> [status |-> "Success", pid |-> pid, size |-> size,
                           num_pages |-> num_pages_needed,
                           frames |-> st.allocated_frames]]

\* Option 2 of the command loop.
create_process(pid, size, memerr) ==
    LET out == create_process_call(Self, rng, pid, size, memerr) IN
    /\ op' = [name |-> "create_process", pid |-> pid, size |-> size]
    /\ free_frames' = out.self.free_frames
    /\ physical_memory' = out.self.physical_memory
    /\ processes' = out.self.processes
    /\ rng' = out.rng
    /\ ret' = out.ret
    /\ report' = out.report
    /\ UNCHANGED <<physical_size, page_size, max_process_size, total_frames>>

\* ---------------------------------------------------------- view_memory
\* The inner loop of the reverse index: the entries of one page table, in
\* insertion order (pages are inserted in ascending order).
RECURSIVE FrameMapTable(_, _, _, _)
FrameMapTable(frame_map, pid, page_table, pages) ==
    IF pages = {} THEN frame_map
    ELSE
        LET page == CHOOSE p \in pages : \A q \in pages : p <= q
            frame == page_table[page]
        IN  FrameMapTable(TableSet(frame_map, frame, [pid |-> pid, page |-> page]),
                          pid, page_table, pages \ {page})

\* The outer loop: the processes from the i-th on, in insertion order.
RECURSIVE FrameMapFrom(_, _, _)
FrameMapFrom(frame_map, procs, i) ==
    IF i > Len(procs) THEN frame_map
    ELSE FrameMapFrom(
            FrameMapTable(frame_map, procs[i].pid, procs[i].page_table,
                          DOMAIN procs[i].page_table),
            procs, i + 1)

\* The reverse index keyed by page instead of frame.
FrameMapByPage(procs) ==
    LET by_frame == FrameMapFrom([f \in {} |-> 0], procs, 1)
    IN  [p \in {by_frame[f].page : f \in DOMAIN by_frame} |->
            by_frame[CHOOSE f \in DOMAIN by_frame : by_frame[f].page = p]]

\* frame_map: frame -> (pid, page), a later entry replacing an earlier one.
FrameMap(procs) == FrameMapFrom([f \in {} |-> 0], procs, 1)

\* The line printed for one frame.
FrameLine(self, frame_map, frame) ==
    LET frame_start == frame * self.page_size
        frame_data_snippet ==
            Hex(Slice(self.physical_memory, frame_start, frame_start + SnippetLen))
    IN  IF frame \in DOMAIN frame_map
        THEN [frame |-> frame, owner |-> "Processo",
              pid |-> frame_map[frame].pid, page |-> frame_map[frame].page,
              snippet |-> frame_data_snippet]
        ELSE [frame |-> frame, owner |-> "LIVRE",
              snippet |-> frame_data_snippet]

\* What view_memory prints.  free_perc is the percentage in hundredths, as
\* the two decimals printed (exact while total_frames divides 10000).
view_memory_report(self) ==
    LET free_count == Len(self.free_frames)
        used_count == self.total_frames - free_count
        free_perc == (free_count * 10000) \div self.total_frames
        frame_map == FrameMap(self.processes)
    IN  [kind |-> "view_memory",
         free_count |-> free_count,
         used_count |-> used_count,
         total_frames |-> self.total_frames,
         free_perc |-> free_perc,
         lines |-> [i \in 1 .. self.total_frames |->
                        FrameLine(self, frame_map, i - 1)]]

\* A view_memory that takes a frame off the free list while it reads.
view_memory_popping ==
    /\ op' = [name |-> "view_memory", pid |-> 0, size |-> 0]
    /\ ret' = NoRet
    /\ report' = view_memory_report(Self)
    /\ free_frames' = IF Len(free_frames) = 0 THEN free_frames
                      ELSE ListPop(free_frames).rest
    /\ UNCHANGED <<physical_size, page_size, max_process_size, total_frames,
                   physical_memory, processes, rng>>

\* Option 1 of the command loop.
view_memory ==
    /\ op' = [name |-> "view_memory", pid |-> 0, size |-> 0]
    /\ ret' = NoRet
    /\ report' = view_memory_report(Self)
    /\ UNCHANGED <<manager, rng>>

\* ------------------------------------------------------ view_page_table
\* The keys in descending order: sorted(keys, reverse=True).
RECURSIVE SortedDescending(_)
SortedDescending(S) ==
    IF S = {} THEN <<>>
    ELSE LET m == CHOOSE x \in S : \A y \in S : x >= y
         IN  <<m>> \o SortedDescending(S \ {m})

\* sorted(keys)
RECURSIVE Sorted(_)
Sorted(S) ==
    IF S = {} THEN <<>>
    ELSE LET m == CHOOSE x \in S : \A y \in S : x <= y
         IN  <<m>> \o Sorted(S \ {m})

\* What view_page_table(pid) prints.
view_page_table_report(self, pid) ==
    LET process == DictGet(self.processes, pid) IN
    IF process = None
    THEN [kind |-> "view_page_table", pid |-> pid, found |-> FALSE]
    ELSE
        LET sorted_pages == Sorted(DOMAIN process.page_table) IN
        [kind |-> "view_page_table", pid |-> pid, found |-> TRUE,
         size |-> process.size,
         pages_allocated |-> Cardinality(DOMAIN process.page_table),
         no_pages |-> (DOMAIN process.page_table = {}),
         lines |-> [i \in 1 .. Len(sorted_pages) |->
                        [page |-> sorted_pages[i],
                         frame |-> process.page_table[sorted_pages[i]]]]]

\* Option 3 of the command loop.
view_page_table(pid) ==
    /\ op' = [name |-> "view_page_table", pid |-> pid, size |-> 0]
    /\ ret' = NoRet
    /\ report' = view_page_table_report(Self, pid)
    /\ UNCHANGED <<manager, rng>>

\* ------------------------------------------------------- specifications
Next ==
    \/ \E pid \in Pids, size \in Sizes :
          \E memerr \in MemErrs(size) : create_process(pid, size, memerr)
    \/ view_memory
    \/ \E pid \in Pids : view_page_table(pid)

Spec == Init /\ [][Next]_vars

\* The manager of 16 bytes in pages of 4, 8 or 16 bytes, with sizes around
\* the page and memory limits.
SizesLarge == {0, 3, 5, 8, 16, 17}

InitLarge ==
    /\ physical_size = 16
    /\ page_size \in {4, 8, 16}
    /\ max_process_size \in {8, 16}
    /\ total_frames = physical_size \div page_size
    /\ physical_memory = Zeros(physical_size)
    /\ free_frames = InitialFreeFrames(total_frames)
    /\ processes = <<>>
    /\ rng \in Seeds
    /\ op = NoOp
    /\ ret = NoRet
    /\ report = NoReport

NextLarge ==
    \/ \E pid \in Pids, size \in SizesLarge :
          \E memerr \in MemErrs(size) : create_process(pid, size, memerr)
    \/ view_memory
    \/ \E pid \in Pids : view_page_table(pid)

SpecLarge == InitLarge /\ [][NextLarge]_vars

\* =====================================================================
\* Properties
\* =====================================================================
CreateFailures ==
    {"DuplicatePid", "InvalidSize", "SizeExceedsLimit", "InsufficientMemory"}

IsCreate(o) == o.name = "create_process"
IsView(o) == o.name \in {"view_memory", "view_page_table"}

Registered(pid) == \E i \in 1 .. Len(processes) : processes[i].pid = pid

\* The (process, page) entries of all page tables, a process named by its
\* place in the registry.
MappedEntries ==
    UNION {{<<i, p>> : p \in DOMAIN processes[i].page_table} :
              i \in 1 .. Len(processes)}

FrameOf(e) == processes[e[1]].page_table[e[2]]

FreeSlots(f) == {k \in 1 .. Len(free_frames) : free_frames[k] = f}
MappedSlots(f) == {e \in MappedEntries : FrameOf(e) = f}

\* ceil(size / page_size) as the least n with n * page_size >= size.
PagesFor(size) ==
    CHOOSE n \in 0 .. Max(size, 0) :
        /\ n * page_size >= size
        /\ \A m \in 0 .. (n - 1) : m * page_size < size

\* C1: the free frames and the frames of all page tables are exactly
\* 0 .. total_frames-1, each frame once: none free and mapped, none mapped
\* twice, none missing.
C1_FramePartition ==
    /\ \A k \in 1 .. Len(free_frames) : free_frames[k] \in 0 .. (total_frames - 1)
    /\ \A e \in MappedEntries : FrameOf(e) \in 0 .. (total_frames - 1)
    /\ \A f \in 0 .. (total_frames - 1) :
          Cardinality(FreeSlots(f)) + Cardinality(MappedSlots(f)) = 1

C1_Witness ==
    /\ Len(processes) >= 2
    /\ Len(free_frames) >= 1
    /\ \E i \in 1 .. Len(processes) :
          Cardinality(DOMAIN processes[i].page_table) >= 2
    /\ IsView(op)

\* C2: a create_process call that fails for one of its four reasons leaves
\* free_frames, physical_memory and processes as they were.
C2_FailedCreateChangesNothing ==
    [][(IsCreate(op') /\ ret'.status \in CreateFailures) =>
            /\ free_frames' = free_frames
            /\ physical_memory' = physical_memory
            /\ processes' = processes]_vars

C2_Witness ==
    /\ IsCreate(op)
    /\ ret.status = "InsufficientMemory"
    /\ Len(free_frames) >= 1
    /\ Len(processes) >= 1

\* C3: create_process returns the failure of the first violated precondition
\* in the order DuplicatePid, InvalidSize, SizeExceedsLimit,
\* InsufficientMemory, and succeeds exactly when all four hold.
C3_Outcome(pid, size, status) ==
    LET fresh == ~Registered(pid)
        positive == size > 0
        within == size <= max_process_size
        fits == PagesFor(size) <= Len(free_frames)
    IN  /\ status = "DuplicatePid" <=> ~fresh
        /\ status = "InvalidSize" <=> (fresh /\ ~positive)
        /\ status = "SizeExceedsLimit" <=> (fresh /\ positive /\ ~within)
        /\ status = "InsufficientMemory" <=>
                (fresh /\ positive /\ within /\ ~fits)
        /\ status = "Success" <=> (fresh /\ positive /\ within /\ fits)

C3_CheckOrder ==
    [][IsCreate(op') => C3_Outcome(op'.pid, op'.size, ret'.status)]_vars

C3_Witness ==
    /\ IsCreate(op)
    /\ op.size <= 0
    /\ Registered(op.pid)
    /\ ret.status = "DuplicatePid"

\* C4: a successful create_process needing n pages, made when k frames are
\* already allocated, allocates the frames k, k+1, ..., k+n-1 in that order.
C4_AscendingFrames ==
    [][(IsCreate(op') /\ ret'.status = "Success") =>
            LET k == Cardinality(MappedEntries)
                n == PagesFor(op'.size)
            IN  ret'.frames = [i \in 1 .. n |-> k + i - 1]]_vars

C4_Witness ==
    /\ total_frames = 4
    /\ Len(processes) = 2
    /\ \A p \in {0, 1} : p \in DOMAIN processes[1].page_table
    /\ processes[1].page_table[0] = 0
    /\ processes[1].page_table[1] = 1
    /\ IsCreate(op)
    /\ ret.status = "Success"
    /\ ret.frames = <<2, 3>>

\* C5: the frame of every page holds the page's logical bytes followed by
\* zero bytes up to page_size, in every reachable state.
C5_FrameContents ==
    \A e \in MappedEntries :
        \A j \in 0 .. (page_size - 1) :
            LET process == processes[e[1]]
                logical == e[2] * page_size + j
                physical == FrameOf(e) * page_size + j
            IN  /\ physical \in DOMAIN physical_memory
                /\ BLen(process.logical_memory) = process.size
                /\ physical_memory[physical] =
                      IF logical < process.size
                      THEN process.logical_memory[logical]
                      ELSE 0

\* page_size = 4, size = 5: the frame of page 1 holds logical byte 4 and
\* three zero bytes, a later process having been created since.
C5_Witness ==
    /\ page_size = 4
    /\ Len(processes) = 2
    /\ processes[1].size = 5
    /\ processes[1].logical_memory[4] # 0
    /\ LET f == processes[1].page_table[1] IN
          /\ physical_memory[4 * f] = processes[1].logical_memory[4]
          /\ \A j \in 1 .. 3 : physical_memory[4 * f + j] = 0

\* The manager of the exact-fit case: 16 bytes in 4 frames of 4.
ExactFit == physical_size = 16 /\ page_size = 4
HasFull == \E i \in 1 .. Len(processes) : processes[i].size = 16

\* Creating a process of size 16 in the empty manager succeeds (the limit
\* max_process_size admitting the size, as the case supposes): no state shows
\* the call made and the registry still empty.  Once created, the process
\* holds the frames 0 .. 3 and none is left free.
C6_UsesAllFrames ==
    /\ ~(processes = <<>> /\ IsCreate(op) /\ op.size = 16
            /\ max_process_size >= 16)
    /\ (Len(processes) = 1 /\ processes[1].size = 16 /\ IsCreate(op)
            /\ ret.status = "Success") =>
                (ret.frames = <<0, 1, 2, 3>> /\ free_frames = <<>>)

\* C6 as claimed: with 16 bytes in pages of 4, creating a process of size 16
\* succeeds and uses all 4 frames, and every later create_process with a
\* positive size fails with InsufficientMemory.
C6_AsClaimed ==
    ExactFit =>
        /\ C6_UsesAllFrames
        /\ HasFull =>
              /\ Len(processes) = 1
              /\ (IsCreate(op) /\ op.size > 0 /\ ret.status # "Success") =>
                    ret.status = "InsufficientMemory"

\* C6 as amended: with 16 bytes in pages of 4 and max_process_size >= 16,
\* creating a process of size 16 in the empty manager succeeds and uses all 4
\* frames; every later create_process with a positive size fails, with
\* DuplicatePid for the registered pid, else SizeExceedsLimit for a size above
\* max_process_size, else InsufficientMemory.
C6_ExactFit ==
    ExactFit =>
        /\ C6_UsesAllFrames
        /\ HasFull =>
              /\ Len(processes) = 1
              /\ (IsCreate(op) /\ op.size > 0 /\ ret.status # "Success") =>
                    ret.status =
                        IF op.pid = processes[1].pid THEN "DuplicatePid"
                        ELSE IF op.size > max_process_size
                             THEN "SizeExceedsLimit"
                        ELSE "InsufficientMemory"

C6_Witness ==
    /\ ExactFit
    /\ HasFull
    /\ free_frames = <<>>
    /\ IsCreate(op)
    /\ op.size > 0
    /\ ret.status = "InsufficientMemory"

\* C7: every page table has exactly ceil(size/page_size) entries, keyed by
\* the pages 0 .. ceil(size/page_size)-1.
C7_PageTableShape ==
    \A i \in 1 .. Len(processes) :
        LET n == PagesFor(processes[i].size) IN
        /\ DOMAIN processes[i].page_table = 0 .. (n - 1)
        /\ Cardinality(DOMAIN processes[i].page_table) = n

C7_Witness ==
    /\ Len(processes) = 2
    /\ processes[1].size % page_size # 0
    /\ Cardinality(DOMAIN processes[1].page_table) = 2
    /\ processes[2].size % page_size = 0
    /\ Cardinality(DOMAIN processes[2].page_table) = 2

\* C8: view_memory and view_page_table change neither free_frames,
\* physical_memory nor processes; the same view repeated prints the same
\* report, and no create_process call has another outcome after a view.
C8_ViewsReadOnly ==
    [][IsView(op') =>
            /\ UNCHANGED <<free_frames, physical_memory, processes>>
            /\ (op' = op => report' = report)
            /\ \A pid \in Pids, size \in Sizes :
                  create_process_call(Self', rng', pid, size, NoMemoryError) =
                  create_process_call(Self, rng, pid, size, NoMemoryError)]_vars

C8_Witness ==
    /\ op.name = "view_page_table"
    /\ ~report.found
    /\ Len(processes) >= 1
    /\ Len(free_frames) >= 1

\* C9: the sample view_memory prints for frame f is the first
\* min(8, page_size) bytes of frame f and holds no byte of another frame.
C9_SampleWithinFrame ==
    report.kind = "view_memory" =>
        \A i \in 1 .. Len(report.lines) :
            report.lines[i].snippet =
                Hex([j \in 0 .. (Min(SnippetLen, page_size) - 1) |->
                        physical_memory[report.lines[i].frame * page_size + j]])

\* C10: view_memory reports every frame once, free exactly when it is in
\* free_frames and otherwise owned by the one (pid, page) mapped to it; the
\* free count is the length of free_frames and the used count the number of
\* frames reported as owned.
LinesOf(f) == {i \in 1 .. Len(report.lines) : report.lines[i].frame = f}
OwnedLines == {i \in 1 .. Len(report.lines) : report.lines[i].owner = "Processo"}

C10_OccupancyReport ==
    report.kind = "view_memory" =>
        /\ Len(report.lines) = total_frames
        /\ \A f \in 0 .. (total_frames - 1) : Cardinality(LinesOf(f)) = 1
        /\ \A i \in 1 .. Len(report.lines) :
              LET line == report.lines[i] IN
              /\ line.owner \in {"LIVRE", "Processo"}
              /\ line.owner = "LIVRE" <=> FreeSlots(line.frame) # {}
              /\ line.owner = "Processo" =>
                    \E e \in MappedEntries :
                        /\ processes[e[1]].pid = line.pid
                        /\ e[2] = line.page
                        /\ MappedSlots(line.frame) = {e}
        /\ report.free_count = Len(free_frames)
        /\ report.used_count = total_frames - report.free_count
        /\ report.used_count = Cardinality(OwnedLines)

C10_Witness ==
    /\ report.kind = "view_memory"
    /\ Len(processes) = 2
    /\ OwnedLines # {}
    /\ \E i \in 1 .. Len(report.lines) : report.lines[i].owner = "LIVRE"
    /\ \E i \in OwnedLines : report.lines[i].page = 1

\* C11: view_page_table(pid) reports ProcessNotFound exactly when no
\* create_process call has registered pid, the pids 0 and -1 included.
C11_NotFoundIffUnregistered ==
    report.kind = "view_page_table" =>
        /\ report.pid = op.pid
        /\ report.found <=> Registered(report.pid)

C11_Witness ==
    /\ report.kind = "view_page_table"
    /\ report.pid = 0
    /\ report.found
    /\ Len(processes) = 1

\* C12: a successful create_process returns num_pages = ceil(size/page_size)
\* and that many frames, the i-th being the frame of page i-1 in the new
\* process's page table, and the process is registered under pid with size.
C12_SuccessDescriptor ==
    (IsCreate(op) /\ ret.status = "Success") =>
        /\ ret.pid = op.pid
        /\ ret.size = op.size
        /\ ret.num_pages = PagesFor(op.size)
        /\ Len(ret.frames) = ret.num_pages
        /\ Cardinality({i \in 1 .. Len(processes) :
                            processes[i].pid = op.pid}) = 1
        /\ \A i \in 1 .. Len(processes) :
              processes[i].pid = op.pid =>
                  /\ processes[i].size = op.size
                  /\ \A k \in 1 .. Len(ret.frames) :
                        /\ (k - 1) \in DOMAIN processes[i].page_table
                        /\ processes[i].page_table[k - 1] = ret.frames[k]

C12_Witness ==
    /\ IsCreate(op)
    /\ ret.status = "Success"
    /\ Len(processes) = 2
    /\ ret.num_pages = 2
    /\ op.size % page_size # 0

\* C13: a registered process stays registered under its pid, with the same
\* size, logical memory and page table, through every later operation.
C13_ProcessesPersist ==
    [][\A i \in 1 .. Len(processes) :
            /\ \E j \in 1 .. Len(processes') : processes'[j] = processes[i]
            /\ \A j \in 1 .. Len(processes') :
                  processes'[j].pid = processes[i].pid =>
                      processes'[j] = processes[i]]_vars

\* A process registered first, a second one created later, and a call with
\* the first one's pid refused since.
C13_Witness ==
    /\ Len(processes) = 2
    /\ IsCreate(op)
    /\ op.pid = processes[1].pid
    /\ ret.status = "DuplicatePid"

\* C14: the free-frame pool only shrinks: after every operation the set of
\* free frames is a subset of the set before it.
FreeSet == {free_frames[k] : k \in 1 .. Len(free_frames)}

C14_PoolOnlyShrinks ==
    [][{free_frames'[k] : k \in 1 .. Len(free_frames')} \subseteq FreeSet]_vars

C14_Witness ==
    /\ Len(processes) = 1
    /\ FreeSet # {}
    /\ Cardinality(FreeSet) < total_frames
    /\ IsCreate(op)
    /\ ret.status = "InsufficientMemory"

\* C15: for a registered pid view_page_table reports the size, a page count
\* equal to the number of page-table entries, and every (page, frame) entry
\* once, in strictly ascending page order.
C15_PageTableReport ==
    (report.kind = "view_page_table" /\ report.found) =>
        \E i \in 1 .. Len(processes) :
            LET process == processes[i] IN
            /\ process.pid = report.pid
            /\ report.size = process.size
            /\ report.pages_allocated = Cardinality(DOMAIN process.page_table)
            /\ Len(report.lines) = report.pages_allocated
            /\ \A k \in 1 .. Len(report.lines) :
                  /\ report.lines[k].page \in DOMAIN process.page_table
                  /\ report.lines[k].frame =
                        process.page_table[report.lines[k].page]
            /\ \A k \in 1 .. (Len(report.lines) - 1) :
                  report.lines[k].page < report.lines[k + 1].page
            /\ \A p \in DOMAIN process.page_table :
                  \E k \in 1 .. Len(report.lines) : report.lines[k].page = p

C15_Witness ==
    /\ report.kind = "view_page_table"
    /\ report.found
    /\ Len(report.lines) >= 2
    /\ Len(processes) = 2
    /\ report.pid = processes[2].pid

\* C16: every registered process has 0 < size <= max_process_size.
C16_SizeWithinLimits ==
    \A i \in 1 .. Len(processes) :
        /\ 0 < processes[i].size
        /\ processes[i].size <= max_process_size

C16_Witness ==
    /\ Len(processes) = 2
    /\ processes[1].size = 1
    /\ processes[2].size = max_process_size
    /\ max_process_size > 1

\* C17: every byte of every frame still in free_frames is zero.
C17_FreeFramesZero ==
    \A k \in 1 .. Len(free_frames) :
        \A j \in 0 .. (page_size - 1) :
            LET physical == free_frames[k] * page_size + j IN
            /\ physical \in DOMAIN physical_memory
            /\ physical_memory[physical] = 0

\* Frames written with bytes that are not zero, and a frame still free.
C17_Witness ==
    /\ Len(processes) = 2
    /\ Len(free_frames) >= 1
    /\ \A i \in 1 .. 2 :
          \E b \in DOMAIN processes[i].logical_memory :
              processes[i].logical_memory[b] # 0
    /\ \E a \in DOMAIN physical_memory : physical_memory[a] # 0

\* C18: once a create_process needing n pages has failed with
\* InsufficientMemory, no later create_process needing n or more pages
\* succeeds.
FailedFor(n) ==
    /\ IsCreate(op)
    /\ ret.status = "InsufficientMemory"
    /\ PagesFor(op.size) = n

SucceededFrom(n) ==
    /\ IsCreate(op)
    /\ ret.status = "Success"
    /\ PagesFor(op.size) >= n

\* A request refused for lack of frames has passed the size limit, so it
\* needs at most max_process_size <= MaxConfig pages.
C18_NoSuccessAfterShortage ==
    \A n \in 1 .. MaxConfig : [](FailedFor(n) => [](~SucceededFrom(n)))

\* A request for 2 pages refused for lack of frames, one frame being free
\* for a later, smaller request.
C18_Witness ==
    /\ Len(processes) = 1
    /\ IsCreate(op)
    /\ ret.status = "InsufficientMemory"
    /\ PagesFor(op.size) = 2
    /\ Len(free_frames) = 1

\* C19: every registered process has at least one page-table entry, and
\* view_page_table never takes its "no allocated pages" branch.
C19_NoEmptyPageTable ==
    /\ \A i \in 1 .. Len(processes) : DOMAIN processes[i].page_table # {}
    /\ (report.kind = "view_page_table" /\ report.found) =>
            (~report.no_pages /\ Len(report.lines) >= 1)

C19_Witness ==
    /\ report.kind = "view_page_table"
    /\ report.found
    /\ report.size < page_size
    /\ Len(report.lines) = 1

====
